---- MODULE Spec2Model ----
(***************************************************************************)
(* Model of the preload pass of the scene-description loader               *)
(* (simulation/config_loader.py): read_phys_param and                      *)
(* ConfigLoader.preload_config.                                            *)
(*                                                                         *)
(* A line of text is a sequence of one-character strings.  The source      *)
(* file is not stored: every f.readline() draws the next line from the     *)
(* finite set Lines, or reports end of input, so the behaviours of the     *)
(* model are the passes over every file made of those lines.               *)
(***************************************************************************)
EXTENDS Integers, Sequences, FiniteSets, TLC

(***************************************************************************)
(* Character classes (ASCII part of Python's str.strip, \s, \w and \d).    *)
(***************************************************************************)
Digit == {"0", "1", "2", "3", "4", "5", "6", "7", "8", "9"}

Space == {" ", "\t", "\n", "\r", "\f"}

Lower == {"a", "b", "c", "d", "e", "f", "g", "h", "i", "j", "k", "l", "m",
          "n", "o", "p", "q", "r", "s", "t", "u", "v", "w", "x", "y", "z"}

Upper == {"A", "B", "C", "D", "E", "F", "G", "H", "I", "J", "K", "L", "M",
          "N", "O", "P", "Q", "R", "S", "T", "U", "V", "W", "X", "Y", "Z"}

Word == Lower \cup Upper \cup Digit \cup {"_"}

DigitVal(c) ==
    CASE c = "0" -> 0 [] c = "1" -> 1 [] c = "2" -> 2 [] c = "3" -> 3
      [] c = "4" -> 4 [] c = "5" -> 5 [] c = "6" -> 6 [] c = "7" -> 7
      [] c = "8" -> 8 [] c = "9" -> 9

ToLower(c) ==
    CASE c = "I" -> "i" [] c = "N" -> "n" [] c = "F" -> "f" [] c = "T" -> "t"
      [] c = "Y" -> "y" [] c = "A" -> "a" [] OTHER -> c

(***************************************************************************)
(* String helpers.                                                         *)
(***************************************************************************)
\* The element of a one-element set.  The helpers below bind their
\* arguments as elements of one-element sets, so that each argument is
\* evaluated once, as Python evaluates the arguments of a call.
Only(S) == CHOOSE x \in S : TRUE

RECURSIVE ScanWhile(_, _, _)
\* The first index j >= i with j > Len(s) or s[j] \notin C: the end of a
\* greedy run of characters of class C that starts at i.
ScanWhile(s, i, C) ==
    Only({ IF k <= Len(t) /\ t[k] \in C THEN ScanWhile(t, k + 1, C) ELSE k :
           t \in {s}, k \in {i} })

RECURSIVE ScanBack(_, _, _)
ScanBack(s, j, C) ==
    Only({ IF k >= 1 /\ t[k] \in C THEN ScanBack(t, k - 1, C) ELSE k :
           t \in {s}, k \in {j} })

\* s without the characters before index i and after index j.
Trim(s, i, j) == IF i > j THEN << >> ELSE SubSeq(s, i, j)

\* str.strip(): leading and trailing whitespace removed.
Strip(s) == Trim(s, ScanWhile(s, 1, Space), ScanBack(s, Len(s), Space))

\* str.startswith / str.endswith
StartsWith(s, p) ==
    Len(s) >= Len(p) /\ SubSeq(s, 1, Len(p)) = p

EndsWith(s, p) ==
    Len(s) >= Len(p) /\ SubSeq(s, Len(s) - Len(p) + 1, Len(s)) = p

RECURSIVE Find(_, _, _)
\* The first index j >= i with j > Len(s) or s[j] = c.
Find(s, i, c) ==
    Only({ IF k <= Len(t) /\ t[k] # c THEN Find(t, k + 1, c) ELSE k :
           t \in {s}, k \in {i} })

RECURSIVE SplitFrom(_, _, _)
SplitFrom(s, i, sep) ==
    Only({ IF j > Len(t) THEN << SubSeq(t, k, Len(t)) >>
           ELSE << SubSeq(t, k, j - 1) >> \o SplitFrom(t, j + 1, sep) :
           <<t, k, j>> \in {<<s, i, Find(s, i, sep)>>} })

\* str.split(sep): the fields between the occurrences of sep.
Split(s, sep) == SplitFrom(s, 1, sep)

RECURSIVE DigitsValue(_, _, _)
\* The number written by the digits s[i..j].
DigitsValue(s, i, j) ==
    Only({ IF k < a THEN 0 ELSE 10 * DigitsValue(t, a, k - 1) + DigitVal(t[k]) :
           t \in {s}, a \in {i}, k \in {j} })

RECURSIVE Pow10(_)
Pow10(n) == IF n = 0 THEN 1 ELSE 10 * Pow10(n - 1)

RECURSIVE Normal(_, _)
\* mant * 10^exp without trailing zeros in mant, so that equal values have
\* equal representations.
Normal(mant, exp) ==
    Only({ IF m = 0 THEN [mant |-> 0, exp |-> 0]
           ELSE IF m % 10 = 0 THEN Normal(m \div 10, e + 1)
           ELSE [mant |-> m, exp |-> e] : m \in {mant}, e \in {exp} })

(***************************************************************************)
(* Python's numeric conversions.  A float is [kind, neg, mant, exp]: the   *)
(* value (-1)^neg * mant * 10^exp, an infinity or a NaN.  A conversion     *)
(* returns [ok |-> TRUE, val |-> v] or [ok |-> FALSE, err |-> exception].  *)
(***************************************************************************)
Fin(neg, mant, exp) ==
    LET n == Normal(mant, exp)
    IN  [kind |-> "fin", neg |-> neg, mant |-> n.mant, exp |-> n.exp]

Inf(neg) == [kind |-> "inf", neg |-> neg, mant |-> 0, exp |-> 0]

NaN == [kind |-> "nan", neg |-> FALSE, mant |-> 0, exp |-> 0]

Ok(v) == [ok |-> TRUE, val |-> v]

Raise(e) == [ok |-> FALSE, err |-> e]

InfWords ==
    { <<"i", "n", "f">>, <<"i", "n", "f", "i", "n", "i", "t", "y">> }

NanWord == <<"n", "a", "n">>

LowerCase(s) == [k \in 1..Len(s) |-> ToLower(s[k])]

HasSign(t) == Len(t) >= 1 /\ t[1] \in {"+", "-"}

HasMinus(t) == Len(t) >= 1 /\ t[1] = "-"

IsAt(t, i, C) == i <= Len(t) /\ t[i] \in C

\* The literal t: integer digits t[i1..a-1], fraction digits t[a+1..b-1]
\* when b > a, exponent e, and last the index after the literal.
DecimalValue(t, neg, i1, a, b, last, e) ==
    LET nFrac == IF b > a THEN b - a - 1 ELSE 0
        mant  == DigitsValue(t, i1, a - 1) * Pow10(nFrac)
                   + DigitsValue(t, a + 1, b - 1)
    IN  IF (a - i1) + nFrac >= 1 /\ last = Len(t) + 1
          THEN Ok(Fin(neg, mant, e - nFrac))
        ELSE Raise("ValueError")

\* The exponent digits t[c..d-1], at least one.
DecimalExpDigits(t, neg, i1, a, b, c, d) ==
    IF d > c
      THEN DecimalValue(t, neg, i1, a, b, d,
                        IF t[c - 1] = "-" THEN 0 - DigitsValue(t, c, d - 1)
                        ELSE DigitsValue(t, c, d - 1))
    ELSE Raise("ValueError")

\* After the fraction, at b: an optional exponent, e or E and a sign.
DecimalExp(t, neg, i1, a, b) ==
    IF IsAt(t, b, {"e", "E"})
      THEN DecimalExpDigits(t, neg, i1, a, b,
               IF IsAt(t, b + 1, {"+", "-"}) THEN b + 2 ELSE b + 1,
               ScanWhile(t, IF IsAt(t, b + 1, {"+", "-"}) THEN b + 2
                            ELSE b + 1, Digit))
    ELSE DecimalValue(t, neg, i1, a, b, b, 0)

\* After the integer digits, at a: an optional dot and fraction digits.
DecimalFrac(t, neg, i1, a) ==
    DecimalExp(t, neg, i1, a,
               IF IsAt(t, a, {"."}) THEN ScanWhile(t, a + 1, Digit) ELSE a)

FloatAfterSign(t, neg, i1) ==
    IF LowerCase(SubSeq(t, i1, Len(t))) \in InfWords THEN Ok(Inf(neg))
    ELSE IF LowerCase(SubSeq(t, i1, Len(t))) = NanWord THEN Ok(NaN)
    ELSE DecimalFrac(t, neg, i1, ScanWhile(t, i1, Digit))

FloatLiteral(t) ==
    FloatAfterSign(t, HasMinus(t), IF HasSign(t) THEN 2 ELSE 1)

\* float(s) for a str s: surrounding whitespace, an optional sign, then
\* inf, infinity or nan in any case, or digits with an optional fraction
\* and an optional exponent.
PyFloat(s) == Only({ FloatLiteral(t) : t \in {Strip(s)} })

\* int(x) for a float x: truncation toward zero; a NaN raises ValueError
\* and an infinity raises OverflowError.
FloatToInt(x) ==
    IF x.kind = "nan" THEN Raise("ValueError")
    ELSE IF x.kind = "inf" THEN Raise("OverflowError")
    ELSE LET mag == IF x.exp >= 0 THEN x.mant * Pow10(x.exp)
                    ELSE x.mant \div Pow10(0 - x.exp)
         IN  Ok(IF x.neg THEN 0 - mag ELSE mag)

IntDigits(t, i1, a) ==
    IF a > i1 /\ a = Len(t) + 1
      THEN Ok(IF HasMinus(t) THEN 0 - DigitsValue(t, i1, a - 1)
              ELSE DigitsValue(t, i1, a - 1))
    ELSE Raise("ValueError")

IntAfterSign(t, i1) == IntDigits(t, i1, ScanWhile(t, i1, Digit))

IntLiteral(t) == IntAfterSign(t, IF HasSign(t) THEN 2 ELSE 1)

\* int(s) for a str s: surrounding whitespace, an optional sign, digits.
PyInt(s) == Only({ IntLiteral(t) : t \in {Strip(s)} })

(***************************************************************************)
(* read_phys_param: the pattern of config_loader.py line 52, matched from  *)
(* the left: optional whitespace, a run of word characters (the name),     *)
(* optional whitespace, a colon, optional whitespace, the number, optional *)
(* whitespace, an optional comment opened by two slashes, end of line.     *)
(* The number is a run of digits, optionally followed by a group made of   *)
(* a dot, a (possibly empty) run of digits and, inside that group only,    *)
(* an optional exponent: e or E, an optional sign, a run of digits.        *)
(* Every repetition is followed by a character outside its class, so the   *)
(* greedy scan finds the match whenever there is one.                      *)
(***************************************************************************)
None == [ok |-> FALSE, err |-> "None"]

\* i8: after the whitespace that follows the number.  The line must end
\* there or go on with a comment.
ParamResult(line, i1, i2, i4, i7, i8) ==
    IF \/ i8 = Len(line) + 1
       \/ i8 + 1 <= Len(line) /\ line[i8] = "/" /\ line[i8 + 1] = "/"
      THEN [ok |-> TRUE, name |-> SubSeq(line, i1, i2 - 1),
            value |-> PyFloat(SubSeq(line, i4, i7 - 1)).val]
    ELSE None

\* i7: the end of the number.
ParamTail(line, i1, i2, i4, i7) ==
    ParamResult(line, i1, i2, i4, i7, ScanWhile(line, i7, Space))

\* The exponent digits line[j..k-1]: without one the exponent is not taken
\* and the number ends at i6.
ExponentDigits(i6, j, k) == IF k > j THEN k ELSE i6

ExponentEnd(line, i6, j) == ExponentDigits(i6, j, ScanWhile(line, j, Digit))

\* The end of the number whose integer digits end at i5 and whose fraction
\* group ends at i6 (i6 = i5: no dot).  The exponent is part of the
\* fraction group: it is tried only after a dot.
NumberEnd(line, i5, i6) ==
    IF i6 > i5 /\ IsAt(line, i6, {"e", "E"})
      THEN ExponentEnd(line, i6,
               IF IsAt(line, i6 + 1, {"+", "-"}) THEN i6 + 2 ELSE i6 + 1)
    ELSE i6

\* i5: the end of the integer digits line[i4..i5-1], at least one.
ParamFraction(line, i1, i2, i4, i5) ==
    IF i5 > i4
      THEN ParamTail(line, i1, i2, i4,
               NumberEnd(line, i5,
                   IF IsAt(line, i5, {"."})
                     THEN ScanWhile(line, i5 + 1, Digit) ELSE i5))
    ELSE None

\* i4: the start of the number.
ParamNumber(line, i1, i2, i4) ==
    ParamFraction(line, i1, i2, i4, ScanWhile(line, i4, Digit))

\* The name line[i1..i2-1], at least one character, and the colon at i3.
ParamColon(line, i1, i2, i3) ==
    IF i2 > i1 /\ IsAt(line, i3, {":"})
      THEN ParamNumber(line, i1, i2, ScanWhile(line, i3 + 1, Space))
    ELSE None

ParamName(line, i1, i2) ==
    ParamColon(line, i1, i2, ScanWhile(line, i2, Space))

ParamStart(line, i1) ==
    ParamName(line, i1, ScanWhile(line, i1, Word))

read_phys_param(line) == ParamStart(line, ScanWhile(line, 1, Space))

(***************************************************************************)
(* The section headers the pass compares current_section with, and one     *)
(* bracketed name it does not know.                                        *)
(***************************************************************************)
SIMULATION_BOX ==
    <<"[", "s", "i", "m", "u", "l", "a", "t", "i", "o", "n", " ", "b", "o",
      "x", "]">>

PHYSICAL_PARAMETERS ==
    <<"[", "p", "h", "y", "s", "i", "c", "a", "l", " ", "p", "a", "r", "a",
      "m", "e", "t", "e", "r", "s", "]">>

POSITION ==
    <<"[", "p", "o", "s", "i", "t", "i", "o", "n", "]">>

MEMBRANES ==
    <<"[", "m", "e", "m", "b", "r", "a", "n", "e", "s", "]">>

PARTICLE_MEM_INDEX ==
    <<"[", "p", "a", "r", "t", "i", "c", "l", "e", "M", "e", "m", "I", "n",
      "d", "e", "x", "]">>

VELOCITY ==
    <<"[", "v", "e", "l", "o", "c", "i", "t", "y", "]">>

CONNECTION ==
    <<"[", "c", "o", "n", "n", "e", "c", "t", "i", "o", "n", "]">>

END_MARKER ==
    <<"[", "e", "n", "d", "]">>

UNKNOWN_SECTION ==
    <<"[", "f", "o", "o", "]">>

HeaderLines ==
    {SIMULATION_BOX, PHYSICAL_PARAMETERS, POSITION, MEMBRANES, PARTICLE_MEM_INDEX,
     VELOCITY, CONNECTION, END_MARKER, UNKNOWN_SECTION}

(***************************************************************************)
(* The lines a file is made of, without their line terminator.             *)
(***************************************************************************)
\* blank lines and comments
BlankLine ==
    <<>>

SlashComment ==
    <<"/", "/", " ", "c">>

HashComment ==
    <<" ", "#", " ", "c">>

SkippedLines == {BlankLine, SlashComment, HashComment}

\* bare numbers, as in a [simulation box] block
Number0 ==
    <<"0">>

Number10 ==
    <<"1", "0">>

NumberLines == {Number0, Number10}

\* lines of a [physical parameters] section
ParamG5 ==
    <<"g", ":", " ", "5">>

ParamG10 ==
    <<"g", ":", " ", "1", "0">>

ParamH ==
    <<" ", "h", " ", ":", " ", "5", ".", "2", "5", "e", "-", "3", " ", "/",
      "/", " ", "c">>

ParamExpNoDot ==
    <<"g", ":", " ", "5", "e", "3">>

ParamLines == {ParamG5, ParamG10, ParamH, ParamExpNoDot}

\* rows of a [position] section: field 3 is the particle type
RowLiquid ==
    <<"1", "\t", "1", "\t", "1", "\t", "0">>

RowElastic ==
    <<"1", "\t", "1", "\t", "1", "\t", "1">>

RowBoundary ==
    <<"1", "\t", "1", "\t", "1", "\t", "2", ".", "7">>

RowUnknown ==
    <<"1", "\t", "1", "\t", "1", "\t", "3">>

RowText ==
    <<"1", "\t", "2", "\t", "3", "\t", "x">>

RowInf ==
    <<"1", "\t", "1", "\t", "1", "\t", "i", "n", "f">>

RowNaN ==
    <<"1", "\t", "1", "\t", "1", "\t", "n", "a", "n">>

PositionLines == {RowLiquid, RowElastic, RowBoundary, RowUnknown, RowText, RowInf, RowNaN}

\* rows of a [membranes] section
Membrane ==
    <<"1", "\t", "2", "\t", "0">>

MembraneText ==
    <<"1", "\t", "x", "\t", "0">>

MembraneLines == {Membrane, MembraneText}

Lines ==
    SkippedLines \cup HeaderLines \cup NumberLines \cup ParamLines
      \cup PositionLines \cup MembraneLines

(***************************************************************************)
(* Bounds of the model.                                                    *)
(***************************************************************************)
\* The lines the main loop may read in one pass (the six lines of a
\* [simulation box] block are read by the block itself and not counted).
MaxRows == 3

(***************************************************************************)
(* SimConfig: the record of counts and parameters.                         *)
(***************************************************************************)
LIQUID_PARTICLE == 0

ELASTIC_PARTICLE == 1

BOUNDARY_PARTICLE == 2

Zero == Fin(FALSE, 0, 0)

\* SimConfig(config_path, config_filename): every other field at its default.
SimConfig ==
    [xmin |-> Zero, xmax |-> Zero, ymin |-> Zero, ymax |-> Zero,
     zmin |-> Zero, zmax |-> Zero,
     num_liquid_p |-> 0, num_elastic_p |-> 0, num_boundary_p |-> 0,
     num_total_p |-> 0, num_membranes |-> 0, num_connections |-> 0,
     particle_mem_indices_count |-> 0,
     physical_constants |-> << >>,
     read_position_after_simbox |-> 0]

\* BoundFields with xmax and ymin assigned in the other order.
BoundFieldsSwapped == <<"xmin", "ymin", "xmax", "ymax", "zmin", "zmax">>

\* The fields the [simulation box] block assigns, in the order it reads them.
BoundFields == <<"xmin", "xmax", "ymin", "ymax", "zmin", "zmax">>

\* DictSet that keeps the value a name already has (dict.setdefault).
DictSetKeepFirst(d, name, value) ==
    [k \in DOMAIN d \cup {name} |-> IF k \in DOMAIN d THEN d[k] ELSE value]

\* d[name] = value on a dict d.
DictSet(d, name, value) ==
    [k \in DOMAIN d \cup {name} |-> IF k = name THEN value ELSE d[k]]

NoSection == << >>

\* SectionAfterBox with the section left as the header set it.
SectionAfterBoxKept == SIMULATION_BOX

\* Line 101: current_section after a [simulation box] block.
SectionAfterBox == NoSection

NoConfig == [set |-> FALSE]

\* The source of a pass.  "any": a file whose existence and lines are
\* decided as the pass goes; "file": a file of the given lines; "missing":
\* no file can be opened.
AnySource == [kind |-> "any", lines |-> << >>]

FileOf(lines) == [kind |-> "file", lines |-> lines]

Missing == [kind |-> "missing", lines |-> << >>]

\* No call came before.
NoCall == [result |-> NoConfig, error |-> "", source |-> AnySource]

\* A diagnostic: what it reports and the line number its text carries, 0
\* when the text carries none.
NoMessage == [kind |-> "", near |-> 0]

\* A text that ends in "near line {line_num+1}".
NearLine(kind, n) == [kind |-> kind, near |-> n + 1]

\* A text without a line number.
Unnumbered(kind) == [kind |-> kind, near |-> 0]

VARIABLES
    pc,               \* "start", "scan", "box", "returned" or "raised"
    config,           \* the local SimConfig being filled
    current_section,  \* the header line last read, NoSection for None
    line_num,         \* the local line_num
    line,             \* the line last returned by f.readline(), unstripped
    param,            \* the local param, None before the first assignment
    nread,            \* lines consumed from f: the position f.tell() reports
    nscan,            \* lines consumed by the main loop's readline
    boxIdx,           \* bounds assigned so far by the current block
    result,           \* the value returned, NoConfig before and on a raise
    error,            \* the exception raised to the caller, "" if none
    self_config,      \* the loader's attribute self.config
    message,          \* the diagnostic printed or raised by the last step
    f,                \* the file object of the with statement
    source,           \* the file at config_path/config_filename
    calls,            \* calls of preload_config made so far, this one included
    previous,         \* the outcome of the call before this one
    render_config,    \* render_simulation's global config
    drawn,            \* the box drawn by the last draw_scene
    stopSeen,         \* history: a [particleMemIndex] or [end] header was read
    boxesDone,        \* history: [simulation box] blocks consumed
    boxLines,         \* history: the lines read by the last block
    membRows,         \* history: well-formed rows read under [membranes]
    membSkipped,      \* history: other data rows read under [membranes]
    physSeen,         \* history: a [physical parameters] header was read
    overwrites,       \* history: constants given a new value for an old name
    unknownRows,      \* history: [position] rows whose type code is unknown
    angle,            \* SimpleRenderer's angle
    radius,           \* SimpleRenderer's radius
    paused            \* SimpleRenderer's paused

vars ==
    <<pc, config, current_section, line_num, line, nread, nscan, boxIdx,
      param, result, error, self_config, message, f, source, calls,
      previous, render_config, drawn, stopSeen, boxesDone, boxLines,
      membRows, membSkipped, physSeen, overwrites, unknownRows, angle,
      radius, paused>>

\* What belongs to the caller of preload_config: no step of a pass changes
\* it.
caller ==
    <<source, calls, previous, render_config, drawn, angle, radius, paused>>

history ==
    <<stopSeen, boxesDone, boxLines, membRows, membSkipped, physSeen,
      overwrites, unknownRows>>

\* The locals of a call at line 70, before anything is read.
Entry ==
    /\ pc = "start"
    /\ config = SimConfig
    /\ current_section = NoSection
    /\ line_num = 0
    /\ line = << >>
    /\ param = None
    /\ nread = 0
    /\ nscan = 0
    /\ boxIdx = 0
    /\ result = NoConfig
    /\ error = ""
    /\ message = NoMessage
    /\ f = "none"
    /\ stopSeen = FALSE
    /\ boxesDone = 0
    /\ boxLines = << >>
    /\ membRows = 0
    /\ membSkipped = 0
    /\ physSeen = FALSE
    /\ overwrites = 0
    /\ unknownRows = 0

(***************************************************************************)
(* renderer_test.py: SimpleRenderer.  Its floats are multiples of 0.5      *)
(* (sums and differences of 0.5, 5.0, 1.0, 200.0 and 360.0, which binary   *)
(* floating point represents exactly); they are held in tenths.            *)
(***************************************************************************)
\* The float n.d, in tenths.
Tenths(n, d) == 10 * n + d

min_radius == Tenths(1, 0)

max_radius == Tenths(200, 0)

zoom_speed == Tenths(0, 5)

\* The largest count of wheel notches one event reports.
MaxDirection == 2

\* The direction values of a mouse_wheel event: GLUT passes an int; the far
\* values stand for any value that leaves the range at once.
Directions ==
    (0 - MaxDirection)..MaxDirection \cup {0 - 1000, 1000}

\* The keys of a keyboard event (key == b'p' or not).
Keys == {"p", "q"}

\* Clamp that only keeps the radius from falling under min_radius.
ClampBelow(r) == IF r < min_radius THEN min_radius ELSE r

\* max(self.min_radius, min(self.max_radius, r))
Clamp(r) ==
    LET upper == IF max_radius < r THEN max_radius ELSE r
    IN  IF upper > min_radius THEN upper ELSE min_radius

\* __init__ (lines 12-16).
SimpleRenderer ==
    /\ angle = Tenths(0, 0)
    /\ radius = Tenths(5, 0)
    /\ paused = FALSE

\* The first call of a new ConfigLoader on the source src, in a program
\* that has drawn nothing yet.
InitOn(src) ==
    /\ Entry
    /\ self_config = NoConfig
    /\ source = src
    /\ calls = 1
    /\ previous = NoCall
    /\ render_config = NoConfig
    /\ drawn = << >>
    /\ SimpleRenderer

Init == InitOn(AnySource)

(***************************************************************************)
(* The classification of a stripped line (lines 85 and 89).                *)
(***************************************************************************)
IsSkipped(s) ==
    \/ s = << >>
    \/ StartsWith(s, <<"/", "/">>)
    \/ StartsWith(s, <<"#">>)

IsHeader(s) ==
    StartsWith(s, <<"[">>) /\ EndsWith(s, <<"]">>)

IsData(s) == ~IsSkipped(s) /\ ~IsHeader(s)

(***************************************************************************)
(* The handlers of the sections (lines 107-147): the record after the      *)
(* line, and the exception that leaves the handler, "" when none does.     *)
(***************************************************************************)
Handled(cfg) == [config |-> cfg, exc |-> ""]

Escapes(cfg, e) == [config |-> cfg, exc |-> e]

\* Lines 109-112 for the value p of param.
StoreParam(cfg, p) ==
    IF p.ok
      THEN Handled([cfg EXCEPT !.physical_constants =
                        DictSet(@, p.name, p.value)])
    ELSE Handled(cfg)

PhysParamRow(cfg, s) == StoreParam(cfg, read_phys_param(s))

\* CountParticle that counts a row in num_total_p only when its type is
\* one of the three.
CountParticleKnownOnly(cfg, p_type) ==
    IF p_type = LIQUID_PARTICLE
      THEN [cfg EXCEPT !.num_total_p = @ + 1, !.num_liquid_p = @ + 1]
    ELSE IF p_type = ELASTIC_PARTICLE
      THEN [cfg EXCEPT !.num_total_p = @ + 1, !.num_elastic_p = @ + 1]
    ELSE IF p_type = BOUNDARY_PARTICLE
      THEN [cfg EXCEPT !.num_total_p = @ + 1, !.num_boundary_p = @ + 1]
    ELSE cfg

\* CountParticle that counts a boundary particle as an elastic one.
CountParticleShifted(cfg, p_type) ==
    LET c == [cfg EXCEPT !.num_total_p = @ + 1]
    IN  IF p_type = LIQUID_PARTICLE
          THEN [c EXCEPT !.num_liquid_p = @ + 1]
        ELSE IF p_type \in {ELASTIC_PARTICLE, BOUNDARY_PARTICLE}
          THEN [c EXCEPT !.num_elastic_p = @ + 1]
        ELSE c

\* The counters after a row of type code p_type.
CountParticle(cfg, p_type) ==
    LET c == [cfg EXCEPT !.num_total_p = @ + 1]
    IN  IF p_type = LIQUID_PARTICLE
          THEN [c EXCEPT !.num_liquid_p = @ + 1]
        ELSE IF p_type = ELASTIC_PARTICLE
          THEN [c EXCEPT !.num_elastic_p = @ + 1]
        ELSE IF p_type = BOUNDARY_PARTICLE
          THEN [c EXCEPT !.num_boundary_p = @ + 1]
        ELSE c

\* except (ValueError, IndexError) around the [position] handler.
PositionCaught == {"ValueError", "IndexError"}

\* The row whose type code converts to t.
PositionCode(cfg, t) ==
    IF t.ok THEN Handled(CountParticle(cfg, t.val))
    ELSE IF t.err \in PositionCaught THEN Handled(cfg)
    ELSE Escapes(cfg, t.err)

\* int(float(parts[3])) for the float conversion result f.
IntOfFloat(x) == IF x.ok THEN FloatToInt(x.val) ELSE x

PositionFields(cfg, parts) ==
    IF Len(parts) >= 4
      THEN PositionCode(cfg, IntOfFloat(PyFloat(parts[4])))
    ELSE Handled(cfg)

\* PositionRow that splits the row at spaces.
PositionRowSpaces(cfg, s) == PositionFields(cfg, Split(s, " "))

PositionRow(cfg, s) == PositionFields(cfg, Split(s, "\t"))

\* MembraneFields without the integer conversions: every row of three
\* fields is counted.
MembraneFieldsUnchecked(cfg, parts) ==
    IF Len(parts) >= 3 THEN Handled([cfg EXCEPT !.num_membranes = @ + 1])
    ELSE Handled(cfg)

\* MembraneFields that counts the row as a connection too.
MembraneFieldsConnecting(cfg, parts) ==
    IF Len(parts) >= 3
      THEN IF PyInt(parts[1]).ok /\ PyInt(parts[2]).ok /\ PyInt(parts[3]).ok
             THEN Handled([cfg EXCEPT !.num_membranes = @ + 1,
                                      !.num_connections = @ + 1])
           ELSE Handled(cfg)
    ELSE Handled(cfg)

\* int(parts[0]), int(parts[1]), int(parts[2]): a ValueError is caught.
MembraneFields(cfg, parts) ==
    IF Len(parts) >= 3
      THEN IF PyInt(parts[1]).ok /\ PyInt(parts[2]).ok /\ PyInt(parts[3]).ok
             THEN Handled([cfg EXCEPT !.num_membranes = @ + 1])
           ELSE Handled(cfg)
    ELSE Handled(cfg)

MembraneRow(cfg, s) == MembraneFields(cfg, Split(s, "\t"))

\* Line 112: the warning for a line that did not match carries no line
\* number.
PhysParamMessage(p) ==
    IF p.ok THEN NoMessage ELSE Unnumbered("unrecognized line")

\* Lines 128 and 132 for a row whose type code converts to t, with n the
\* value of line_num; an exception that is not caught ends in the
\* RuntimeError of line 161, whose text carries no line number.
PositionCodeMessage(t, n) ==
    IF t.ok
      THEN IF t.val \in {LIQUID_PARTICLE, ELASTIC_PARTICLE, BOUNDARY_PARTICLE}
             THEN NoMessage
           ELSE NearLine("unknown particle type", n)
    ELSE IF t.err \in PositionCaught THEN NearLine("invalid data line", n)
    ELSE Unnumbered("error during preloading")

\* Line 130 for a row of fewer than four fields.
PositionFieldsMessage(parts, n) ==
    IF Len(parts) >= 4
      THEN PositionCodeMessage(IntOfFloat(PyFloat(parts[4])), n)
    ELSE NearLine("malformed line", n)

PositionMessage(s, n) == PositionFieldsMessage(Split(s, "\t"), n)

\* Lines 145 and 147.
MembraneFieldsMessage(parts, n) ==
    IF Len(parts) >= 3
      THEN IF PyInt(parts[1]).ok /\ PyInt(parts[2]).ok /\ PyInt(parts[3]).ok
             THEN NoMessage
           ELSE NearLine("non-integer line", n)
    ELSE NearLine("malformed line", n)

MembraneMessage(s, n) == MembraneFieldsMessage(Split(s, "\t"), n)

\* Line 103, wrapped by line 161.
BoxMessage(n) == NearLine("simulation box dimensions", n)

\* A [physical parameters] line that gives a name of the map another value.
Redeclares(cfg, s) ==
    /\ read_phys_param(s).ok
    /\ read_phys_param(s).name \in DOMAIN cfg.physical_constants
    /\ cfg.physical_constants[read_phys_param(s).name] # read_phys_param(s).value

\* A row of the [membranes] section as the format describes it: at least
\* three tab-separated fields, the first three of them integer literals.
WellFormedMembraneRow(s) ==
    LET parts == Split(s, "\t")
    IN  /\ Len(parts) >= 3
        /\ PyInt(parts[1]).ok /\ PyInt(parts[2]).ok /\ PyInt(parts[3]).ok

\* StopSections with [velocity] taken for a section that ends the pass.
StopSectionsWithVelocity == {PARTICLE_MEM_INDEX, END_MARKER, VELOCITY}

\* The type code of a [position] row: field 3 as a float truncated to an
\* integer, a failed conversion when the row has no such field or the field
\* is no number that can be truncated.
TypeCode(s) ==
    IF Len(Split(s, "\t")) >= 4
      THEN IntOfFloat(PyFloat(Split(s, "\t")[4]))
    ELSE Raise("IndexError")

RecognizedRow(s) ==
    TypeCode(s).ok /\ TypeCode(s).val \in {0, 1, 2}

\* A row with a type code that is none of the three particle types.
UnknownTypeRow(s) ==
    TypeCode(s).ok /\ TypeCode(s).val \notin {0, 1, 2}

\* The sections whose first data line ends the pass (lines 149-156).
StopSections == {PARTICLE_MEM_INDEX, END_MARKER}

(***************************************************************************)
(* The steps of preload_config.                                            *)
(***************************************************************************)
\* CloseFile that leaves the file object as it is.
CloseSkipped(h) == h

\* Leaving the with block of line 78, by break or by an exception, closes f.
CloseFile(h) == "closed"

\* Fail that stores the record filled so far in self.config.
FailStoring(cfg, msg) ==
    /\ pc' = "raised"
    /\ config' = cfg
    /\ error' = "RuntimeError"
    /\ message' = msg
    /\ f' = CloseFile(f)
    /\ self_config' = cfg
    /\ UNCHANGED result

\* Finish for a loader that requires a [simulation box] block: without
\* one it raises the failure of the block.
FinishNeedsBox(cfg) ==
    /\ pc' = IF boxesDone > 0 THEN "returned" ELSE "raised"
    /\ config' = cfg
    /\ self_config' = IF boxesDone > 0 THEN cfg ELSE self_config
    /\ result' = IF boxesDone > 0 THEN cfg ELSE result
    /\ error' = IF boxesDone > 0 THEN "" ELSE "RuntimeError"
    /\ message' = IF boxesDone > 0 THEN NoMessage ELSE BoxMessage(line_num)
    /\ f' = CloseFile(f)

\* Lines 163-170: the record is stored in self.config and returned.
Finish(cfg) ==
    /\ pc' = "returned"
    /\ config' = cfg
    /\ self_config' = cfg
    /\ result' = cfg
    /\ error' = ""
    /\ message' = NoMessage
    /\ f' = CloseFile(f)

\* except Exception (line 160): whatever escapes becomes a RuntimeError;
\* nothing is returned and self.config is not assigned.
Fail(cfg, msg) ==
    /\ pc' = "raised"
    /\ config' = cfg
    /\ error' = "RuntimeError"
    /\ message' = msg
    /\ f' = CloseFile(f)
    /\ UNCHANGED <<self_config, result>>

\* The lines the next f.readline() can return; none at end of input.
Readable ==
    IF source.kind = "any" THEN Lines
    ELSE IF nread < Len(source.lines) THEN {source.lines[nread + 1]}
    ELSE {}

\* AtEnd for a readline that never returns ''.
AtEndNever == FALSE

\* f.readline() can return '': the input is at its end.
AtEnd == source.kind = "any" \/ nread >= Len(source.lines)

\* f.readline() returns the line l.
Consume(l) ==
    /\ line' = l
    /\ nread' = nread + 1

\* f.tell() after n lines have been consumed.
TellBefore(n) == n - 1

Tell(n) == n

\* Line 78: the file opens.
Open ==
    /\ pc = "start"
    /\ source.kind # "missing"
    /\ pc' = "scan"
    /\ f' = "open"
    /\ message' = NoMessage
    /\ UNCHANGED <<config, current_section, line_num, line, param, nread,
                   nscan, boxIdx, result, error, self_config, history,
                   caller>>

\* Lines 158-159: the file cannot be opened.
OpenFails ==
    /\ pc = "start"
    /\ source.kind # "file"
    /\ pc' = "raised"
    /\ error' = "FileNotFoundError"
    /\ message' = Unnumbered("could not open")
    /\ UNCHANGED <<config, current_section, line_num, line, param, nread,
                   nscan, boxIdx, result, self_config, f, history, caller>>

\* The main loop's readline (line 81) returns l.  A pass over a source
\* whose lines are decided as it goes reads at most MaxRows lines here.
LoopRead(l) ==
    /\ pc = "scan"
    /\ source.kind = "any" => nscan < MaxRows
    /\ Consume(l)
    /\ nscan' = nscan + 1
    /\ UNCHANGED <<line_num, caller>>

\* Lines 85-86: an empty line or a comment.
ReadSkipped(l) ==
    /\ LoopRead(l)
    /\ IsSkipped(Strip(l))
    /\ message' = NoMessage
    /\ UNCHANGED <<pc, config, current_section, param, boxIdx, result,
                   error, self_config, f, history>>

\* Lines 89-104: a section header.  [simulation box] starts its block.
ReadHeader(l) ==
    /\ LoopRead(l)
    /\ ~IsSkipped(Strip(l))
    /\ IsHeader(Strip(l))
    /\ current_section' = Strip(l)
    /\ pc' = IF Strip(l) = SIMULATION_BOX THEN "box" ELSE "scan"
    /\ boxIdx' = 0
    /\ boxLines' = IF Strip(l) = SIMULATION_BOX THEN << >> ELSE boxLines
    /\ stopSeen' = (stopSeen \/ Strip(l) \in StopSections)
    /\ physSeen' = (physSeen \/ Strip(l) = PHYSICAL_PARAMETERS)
    /\ message' = NoMessage
    /\ UNCHANGED <<config, param, result, error, self_config, f, boxesDone,
                   membRows, membSkipped, overwrites, unknownRows>>

\* Lines 93-98: one readline of the block, parsed as a float.  After the
\* sixth (lines 99-101) the position is saved and the section reset.  A
\* line that is no float raises (lines 102-103), which line 160 turns into
\* a RuntimeError.
BoxRead(l) ==
    /\ pc = "box"
    /\ Consume(l)
    /\ boxLines' = Append(boxLines, l)
    /\ LET x == PyFloat(Strip(l))
           c == [config EXCEPT ![BoundFields[boxIdx + 1]] = x.val]
       IN  IF ~x.ok
             THEN /\ Fail(config, BoxMessage(line_num))
                  /\ UNCHANGED <<current_section, boxIdx, boxesDone>>
           ELSE IF boxIdx + 1 < Len(BoundFields)
             THEN /\ config' = c
                  /\ boxIdx' = boxIdx + 1
                  /\ message' = NoMessage
                  /\ UNCHANGED <<pc, current_section, result, error,
                                 self_config, f, boxesDone>>
           ELSE /\ config' =
                     [c EXCEPT !.read_position_after_simbox = Tell(nread')]
                /\ boxIdx' = 0
                /\ current_section' = SectionAfterBox
                /\ pc' = "scan"
                /\ boxesDone' = boxesDone + 1
                /\ message' = NoMessage
                /\ UNCHANGED <<result, error, self_config, f>>
    /\ UNCHANGED <<line_num, param, nscan, stopSeen, membRows, membSkipped,
                   physSeen, overwrites, unknownRows, caller>>

\* A readline of the block returns '' at end of input: float('') raises.
BoxEndOfInput ==
    /\ pc = "box"
    /\ AtEnd
    /\ line' = << >>
    /\ Fail(config, BoxMessage(line_num))
    /\ UNCHANGED <<current_section, line_num, param, nread, nscan, boxIdx,
                   history, caller>>

\* Lines 107-112.
ReadPhysParam(l) ==
    /\ LoopRead(l)
    /\ IsData(Strip(l))
    /\ current_section = PHYSICAL_PARAMETERS
    /\ param' = read_phys_param(Strip(l))
    /\ config' = PhysParamRow(config, Strip(l)).config
    /\ message' = PhysParamMessage(read_phys_param(Strip(l)))
    /\ overwrites' = overwrites + (IF Redeclares(config, Strip(l)) THEN 1 ELSE 0)
    /\ UNCHANGED <<pc, current_section, boxIdx, result, error, self_config,
                   f, stopSeen, boxesDone, boxLines, membRows, membSkipped,
                   physSeen, unknownRows>>

\* Lines 115-132.
ReadPosition(l) ==
    /\ LoopRead(l)
    /\ IsData(Strip(l))
    /\ current_section = POSITION
    /\ LET r == PositionRow(config, Strip(l))
       IN  IF r.exc = ""
             THEN /\ config' = r.config
                  /\ message' = PositionMessage(Strip(l), line_num)
                  /\ UNCHANGED <<pc, result, error, self_config, f>>
           ELSE Fail(r.config, PositionMessage(Strip(l), line_num))
    /\ unknownRows' = unknownRows + (IF UnknownTypeRow(Strip(l)) THEN 1 ELSE 0)
    /\ UNCHANGED <<current_section, param, boxIdx, stopSeen, boxesDone,
                   boxLines, membRows, membSkipped, physSeen, overwrites>>

\* Lines 134-147.
ReadMembrane(l) ==
    /\ LoopRead(l)
    /\ IsData(Strip(l))
    /\ current_section = MEMBRANES
    /\ config' = MembraneRow(config, Strip(l)).config
    /\ message' = MembraneMessage(Strip(l), line_num)
    /\ membRows' = membRows + (IF WellFormedMembraneRow(Strip(l)) THEN 1 ELSE 0)
    /\ membSkipped' =
         membSkipped + (IF WellFormedMembraneRow(Strip(l)) THEN 0 ELSE 1)
    /\ UNCHANGED <<pc, current_section, param, boxIdx, result, error,
                   self_config, f, stopSeen, boxesDone, boxLines, physSeen,
                   overwrites, unknownRows>>

\* Lines 149-151 and 155-156: break, then lines 163-170.
ReadStop(l) ==
    /\ LoopRead(l)
    /\ IsData(Strip(l))
    /\ current_section \in StopSections
    /\ Finish(config)
    /\ UNCHANGED <<current_section, param, boxIdx, history>>

\* Lines 152-154, and a section no branch names: nothing is done.
ReadIgnored(l) ==
    /\ LoopRead(l)
    /\ IsData(Strip(l))
    /\ current_section \notin
         {PHYSICAL_PARAMETERS, POSITION, MEMBRANES} \cup StopSections
    /\ message' = NoMessage
    /\ UNCHANGED <<pc, config, current_section, param, boxIdx, result,
                   error, self_config, f, history>>

\* Lines 82-83: readline returns '' at end of input: break, then 163-170.
EndOfInput ==
    /\ pc = "scan"
    /\ AtEnd
    /\ line' = << >>
    /\ Finish(config)
    /\ UNCHANGED <<current_section, line_num, param, nread, nscan, boxIdx,
                   history, caller>>

Next ==
    \/ Open
    \/ OpenFails
    \/ EndOfInput
    \/ BoxEndOfInput
    \/ \E l \in Readable : ReadSkipped(l)
    \/ \E l \in Readable : ReadHeader(l)
    \/ \E l \in Readable : BoxRead(l)
    \/ \E l \in Readable : ReadPhysParam(l)
    \/ \E l \in Readable : ReadPosition(l)
    \/ \E l \in Readable : ReadMembrane(l)
    \/ \E l \in Readable : ReadStop(l)
    \/ \E l \in Readable : ReadIgnored(l)

Spec == Init /\ [][Next]_vars

(***************************************************************************)
(* Calls of preload_config on files whose lines are fixed in advance: the  *)
(* loader is called again, on the same source or on a replaced one, by     *)
(* the same ConfigLoader or by a new one.                                  *)
(***************************************************************************)
\* The longest run of free lines in a file, and the calls a program makes.
MaxFileLen == 2

MaxCalls == 2

RowTwo ==
    <<"1", "\t", "1", "\t", "1", "\t", "2">>

FileLines ==
    {SlashComment, SIMULATION_BOX, PHYSICAL_PARAMETERS, POSITION, MEMBRANES,
     END_MARKER, ParamG5, RowLiquid, RowInf, Membrane}

\* A [simulation box] block: the header and its six lines.
BoxBlock ==
    <<SIMULATION_BOX, Number0, Number10, Number0, Number10, Number0, Number10>>

\* [simulation box] 0 10 0 10 0 10, [position] with rows of type 0 and 2,
\* [membranes] with the row 1 2 0, [end].
ScenarioFile ==
    BoxBlock \o <<POSITION, RowLiquid, RowTwo, MEMBRANES, Membrane, END_MARKER>>

Tails == UNION {[1..n -> FileLines] : n \in 0..MaxFileLen}

Files ==
    Tails \cup {BoxBlock \o t : t \in Tails}
      \cup {<<SlashComment>> \o BoxBlock \o t : t \in Tails}
      \cup {ScenarioFile}

Sources == {FileOf(t) : t \in Files} \cup {Missing}

\* What the file can have become between two calls: removed, or cut in the
\* middle of its [simulation box] block.
Replaced == {Missing, FileOf(<<SIMULATION_BOX, Number0>>)}

\* NewRecord that goes on with the record of the call before.
NewRecordReused(old) == old

\* Line 70: every call starts from a SimConfig of its own.
NewRecord(old) == SimConfig

\* The loader the next call is made on: the same object, or a ConfigLoader
\* built anew, which has no config attribute.
Loaders == {"same", "new"}

\* preload_config is called again.
CallAgain(src, loader) ==
    /\ pc \in {"returned", "raised"}
    /\ calls < MaxCalls
    /\ calls' = calls + 1
    /\ previous' = [result |-> result, error |-> error, source |-> source]
    /\ source' = src
    /\ self_config' = IF loader = "same" THEN self_config ELSE NoConfig
    /\ pc' = "start"
    /\ config' = NewRecord(config)
    /\ current_section' = NoSection
    /\ line_num' = 0
    /\ line' = << >>
    /\ param' = None
    /\ nread' = 0
    /\ nscan' = 0
    /\ boxIdx' = 0
    /\ result' = NoConfig
    /\ error' = ""
    /\ message' = NoMessage
    /\ f' = "none"
    /\ stopSeen' = FALSE
    /\ boxesDone' = 0
    /\ boxLines' = << >>
    /\ membRows' = 0
    /\ membSkipped' = 0
    /\ physSeen' = FALSE
    /\ overwrites' = 0
    /\ unknownRows' = 0
    /\ UNCHANGED <<render_config, drawn, angle, radius, paused>>

InitFile == \E src \in Sources : InitOn(src)

NextFile ==
    \/ Next
    \/ \E src \in {source} \cup Replaced, loader \in Loaders :
           CallAgain(src, loader)

SpecFile == InitFile /\ [][NextFile]_vars

(***************************************************************************)
(* One call on a stored file, run to its end: a Python call that can take  *)
(* a step takes it.                                                        *)
(***************************************************************************)
SpecPass == InitFile /\ [][Next]_vars /\ WF_vars(Next)

(***************************************************************************)
(* render_simulation.py: the main program calls preload_config once and    *)
(* enters glutMainLoop, which calls display and through it draw_scene.     *)
(***************************************************************************)
\* Config(xmin, xmax, ymin, ymax, zmin, zmax) of render_simulation.py.
Config(xmin, xmax, ymin, ymax, zmin, zmax) ==
    [xmin |-> xmin, xmax |-> xmax, ymin |-> ymin, ymax |-> ymax,
     zmin |-> zmin, zmax |-> zmax]

\* The box draw_scene computes its vertices from.
BoxOf(cfg) == <<cfg.xmin, cfg.xmax, cfg.ymin, cfg.ymax, cfg.zmin, cfg.zmax>>

\* draw_scene, called by display once glutMainLoop runs, that is after
\* preload_config has returned to the main program: the global config is
\* assigned Config(0, 100, 0, 100, 0, 100) and the box is read from it.
draw_scene ==
    /\ pc = "returned"
    /\ render_config' =
         Config(Fin(FALSE, 0, 0), Fin(FALSE, 100, 0), Fin(FALSE, 0, 0),
                Fin(FALSE, 100, 0), Fin(FALSE, 0, 0), Fin(FALSE, 100, 0))
    /\ drawn' = BoxOf(render_config')
    /\ UNCHANGED <<pc, config, current_section, line_num, line, nread, nscan,
                   boxIdx, param, result, error, self_config, message, f,
                   source, calls, previous, history, angle, radius, paused>>

NextRender ==
    \/ Next
    \/ draw_scene

SpecRender == InitFile /\ [][NextRender]_vars

(***************************************************************************)
(* The events GLUT delivers to a SimpleRenderer: timer ticks, mouse wheel  *)
(* and keys, in any order.                                                 *)
(***************************************************************************)
\* What the events of SimpleRenderer leave alone.
program ==
    <<pc, config, current_section, line_num, line, nread, nscan, boxIdx,
      param, result, error, self_config, message, f, source, calls,
      previous, render_config, drawn, history>>

\* update (lines 102-108); the timer is set again on every tick.
update ==
    /\ angle' =
         IF paused THEN angle
         ELSE IF angle + Tenths(0, 5) >= Tenths(360, 0)
           THEN angle + Tenths(0, 5) - Tenths(360, 0)
         ELSE angle + Tenths(0, 5)
    /\ UNCHANGED <<radius, paused, program>>

\* mouse_wheel (lines 110-114).
mouse_wheel(direction) ==
    /\ radius' = Clamp(radius - direction * zoom_speed)
    /\ UNCHANGED <<angle, paused, program>>

\* keyboard (lines 116-118).
keyboard(key) ==
    /\ paused' = IF key = "p" THEN ~paused ELSE paused
    /\ UNCHANGED <<angle, radius, program>>

NextRenderer ==
    \/ update
    \/ \E direction \in Directions : mouse_wheel(direction)
    \/ \E key \in Keys : keyboard(key)

SpecRenderer == Init /\ [][NextRenderer]_vars

(***************************************************************************)
(* Properties of the pass.                                                 *)
(***************************************************************************)
\* The step consumes a line in the main loop (readline of line 81).
LoopStep == pc = "scan" /\ nscan' = nscan + 1

\* The step consumes a line, in the main loop or in a [simulation box] block.
ReadStep == nread' = nread + 1

Counters(cfg) ==
    <<cfg.num_liquid_p, cfg.num_elastic_p, cfg.num_boundary_p,
      cfg.num_total_p>>

Bounds(cfg) ==
    <<cfg.xmin, cfg.xmax, cfg.ymin, cfg.ymax, cfg.zmin, cfg.zmax>>

\* C1: once a [particleMemIndex] or [end] header has been read, no later
\* line changes the record or makes the pass fail.
C1_EarlyExitAtHeader ==
    [][stopSeen => (config' = config /\ pc' # "raised")]_vars

\* C2: a [position] row whose type code is not 0, 1 or 2, and any row that
\* is skipped, leaves the four particle counters unchanged.
C2_UnrecognizedRowCountsNothing ==
    [][(LoopStep /\ current_section = POSITION /\ IsData(Strip(line'))
          /\ ~RecognizedRow(Strip(line')))
        => Counters(config') = Counters(config)]_vars

\* C3: a returned record has num_total_p equal to the sum of the three
\* typed counters.
C3_TotalIsSumOfTypes ==
    pc = "returned" =>
        result.num_total_p =
            result.num_liquid_p + result.num_elastic_p + result.num_boundary_p

\* A row that fails the field-count or numeric-format check of its section.
MalformedRow(section, s) ==
    \/ section = PHYSICAL_PARAMETERS /\ ~read_phys_param(s).ok
    \/ section = POSITION /\ ~TypeCode(s).ok
    \/ section = MEMBRANES /\ ~WellFormedMembraneRow(s)

\* C4: a malformed row under [physical parameters], [position] or
\* [membranes] is skipped: the record is unchanged and the scan goes on.
C4_MalformedRowIsSkipped ==
    [][(LoopStep /\ IsData(Strip(line'))
          /\ MalformedRow(current_section, Strip(line')))
        => (pc' = "scan" /\ config' = config)]_vars

\* The number a line of a [simulation box] block stands for.
IsNumberLine(l) == PyFloat(Strip(l)).ok

BoundValue(l) == PyFloat(Strip(l)).val

\* A returned record whose pass consumed a block holds the six lines of the
\* (last) block in the order xmin, xmax, ymin, ymax, zmin, zmax; a pass that
\* raised has returned and stored nothing.
C5_ReturnedBounds ==
    /\ (pc = "returned" /\ boxesDone > 0) =>
          /\ Len(boxLines) = 6
          /\ result.xmin = BoundValue(boxLines[1])
          /\ result.xmax = BoundValue(boxLines[2])
          /\ result.ymin = BoundValue(boxLines[3])
          /\ result.ymax = BoundValue(boxLines[4])
          /\ result.zmin = BoundValue(boxLines[5])
          /\ result.zmax = BoundValue(boxLines[6])
    /\ (pc = "raised" => (result = NoConfig /\ self_config = NoConfig))
    /\ (result # NoConfig => pc = "returned")

\* Inside a block, end of input or a line that is no number makes the pass
\* raise, with nothing returned or stored.
C5_BlockFailureIsFatal ==
    (pc = "box" /\ (~ReadStep \/ ~IsNumberLine(line')))
      => (pc' = "raised" /\ result' = NoConfig /\ self_config' = self_config)

\* C5: the returned bounds are the six lines that follow the
\* [simulation box] header, in order; a truncated block or a line that is
\* no number raises, and no record with partly assigned bounds is returned
\* or stored.
C5_SimulationBox ==
    []C5_ReturnedBounds /\ [][C5_BlockFailureIsFatal]_vars

C5_Witness ==
    /\ pc = "returned"
    /\ boxesDone = 1
    /\ boxLines = <<Number0, Number10, Number10, Number0, Number0, Number10>>
    /\ result.xmax = BoundValue(Number10)
    /\ result.ymin = BoundValue(Number10)
    /\ result.ymax = BoundValue(Number0)

\* C6: after the first [simulation box] block has been consumed no later
\* line changes the six bounds.
C6_BoundsSetOnce ==
    [][boxesDone >= 1 => Bounds(config') = Bounds(config)]_vars

\* C7: a blank line or a comment line read in any state of the pass, the
\* [simulation box] block included, changes neither the record nor the
\* section and does not end the pass.
C7_BlankAndCommentSkipped ==
    [][(ReadStep /\ IsSkipped(Strip(line')))
        => (pc' = pc /\ config' = config
              /\ current_section' = current_section)]_vars

C9_Step ==
    LET p   == read_phys_param(Strip(line'))
        old == config.physical_constants
        new == config'.physical_constants
    IN  IF LoopStep /\ current_section = PHYSICAL_PARAMETERS
             /\ IsData(Strip(line')) /\ p.ok
          THEN /\ DOMAIN new = DOMAIN old \cup {p.name}
               /\ new[p.name] = p.value
               /\ \A k \in DOMAIN old \ {p.name} : new[k] = old[k]
        ELSE new = old

\* C9: physical_constants is an upsert map (the last matching line of a
\* name wins, a non-matching line changes nothing) and is empty as long as
\* no [physical parameters] header has been read.
C9_ConstantsUpsert ==
    /\ [](~physSeen => config.physical_constants = << >>)
    /\ [][C9_Step]_vars

C9_Witness ==
    /\ pc = "returned"
    /\ overwrites = 1
    /\ DOMAIN result.physical_constants = {<<"g">>}
    /\ result.physical_constants[<<"g">>] = BoundValue(Number10)

\* The grammar of a [physical parameters] line as the format describes it:
\* name, colon, unsigned decimal whose fraction and exponent are each
\* optional on their own, optional comment.
GrammarFraction(s, i5) ==
    IF IsAt(s, i5, {"."}) THEN ScanWhile(s, i5 + 1, Digit) ELSE i5

GrammarExponent(s, i6) ==
    IF IsAt(s, i6, {"e", "E"})
      THEN ExponentEnd(s, i6,
               IF IsAt(s, i6 + 1, {"+", "-"}) THEN i6 + 2 ELSE i6 + 1)
    ELSE i6

GrammarTail(s, i8) ==
    \/ i8 = Len(s) + 1
    \/ i8 + 1 <= Len(s) /\ s[i8] = "/" /\ s[i8 + 1] = "/"

GrammarNumber(s, i4, i5) ==
    /\ i5 > i4
    /\ GrammarTail(s, ScanWhile(s, GrammarExponent(s, GrammarFraction(s, i5)),
                                Space))

GrammarColon(s, i3) ==
    /\ IsAt(s, i3, {":"})
    /\ GrammarNumber(s, ScanWhile(s, i3 + 1, Space),
                     ScanWhile(s, ScanWhile(s, i3 + 1, Space), Digit))

GrammarName(s, i1, i2) ==
    i2 > i1 /\ GrammarColon(s, ScanWhile(s, i2, Space))

InGrammar(s) ==
    GrammarName(s, ScanWhile(s, 1, Space),
                ScanWhile(s, ScanWhile(s, 1, Space), Word))

\* C10: read_phys_param yields a (name, value) for exactly the lines of the
\* grammar, name: 5e3 among them.
C10_GrammarAccepted ==
    (pc = "scan" /\ current_section = PHYSICAL_PARAMETERS
       /\ IsData(Strip(line)))
      => (param.ok <=> InGrammar(Strip(line)))

\* C11: a diagnostic or a fatal failure caused by a line carries the
\* 1-based position of that line in the file.
C11_MessageNamesTheLine ==
    [][(ReadStep /\ message' # NoMessage) => message'.near = nread']_vars

Terminal == {"returned", "raised"}

\* The outcome of a call as the caller sees it: a record returned and
\* stored, or an exception and no record.
C12_Outcome ==
    /\ pc = "returned" => (result # NoConfig /\ self_config = result
                             /\ error = "")
    /\ pc = "raised" => (result = NoConfig /\ error # "")
    /\ pc \notin Terminal => (result = NoConfig /\ error = "")

\* self.config is assigned by a return only, and with the record returned
\* (a ConfigLoader built anew has none); a raise leaves it as it was.
C12_Store ==
    /\ pc' = "raised" => self_config' = self_config
    /\ self_config' # self_config =>
         \/ pc' = "returned" /\ self_config' = result'
         \/ pc' = "start" /\ self_config' = NoConfig

\* C12: a call ends by returning a record, which it stores in self.config,
\* or by raising, and then it returns nothing and leaves self.config as it
\* was: a loader that succeeded before keeps its earlier record.
C12_ReturnOrRaise ==
    []C12_Outcome /\ [][C12_Store]_vars

C12_Witness ==
    /\ calls = 2
    /\ pc = "raised"
    /\ error = "RuntimeError"
    /\ config.xmin # SimConfig.xmin \/ boxIdx > 0
    /\ previous.result # NoConfig
    /\ self_config = previous.result

\* C13: a call on the source of the call before ends as that call did: the
\* record returned equals the earlier one in every field.
C13_SameInputSameRecord ==
    (calls >= 2 /\ pc \in Terminal /\ source = previous.source
       /\ source.kind = "file")
      => (result = previous.result /\ error = previous.error)

C13_Witness ==
    /\ calls = 2
    /\ pc = "returned"
    /\ source = FileOf(ScenarioFile)
    /\ previous.source = source
    /\ result = previous.result
    /\ result.num_total_p = 2

\* The number 10 as a float.
Ten == [kind |-> "fin", neg |-> FALSE, mant |-> 1, exp |-> 1]

\* C14: the pass over the scenario file does not raise and returns bounds
\* (0, 10, 0, 10, 0, 10), liquid 1, elastic 0, boundary 1, total 2 and one
\* membrane.
C14_Scenario ==
    (source = FileOf(ScenarioFile) /\ pc \in Terminal) =>
        /\ pc = "returned"
        /\ BoxOf(result) = <<Zero, Ten, Zero, Ten, Zero, Ten>>
        /\ result.num_liquid_p = 1
        /\ result.num_elastic_p = 0
        /\ result.num_boundary_p = 1
        /\ result.num_total_p = 2
        /\ result.num_membranes = 1

C14_Witness ==
    /\ source = FileOf(ScenarioFile)
    /\ calls = 1
    /\ pc = "returned"
    /\ nread = Len(ScenarioFile)
    /\ result.num_total_p = 2

\* Position r of the lines ls is the end of a [simulation box] block: the
\* header is line r - 6 and the six lines after it are numbers.
AfterBlock(ls, r) ==
    /\ r >= 7
    /\ r <= Len(ls)
    /\ Strip(ls[r - 6]) = SIMULATION_BOX
    /\ \A k \in (r - 5)..r : IsNumberLine(ls[k])

\* The offset of a returned record: the end of a block when the pass
\* consumed one, the default 0 when it consumed none.
C15_ReturnedOffset ==
    (pc = "returned" /\ source.kind = "file") =>
        IF boxesDone > 0
          THEN AfterBlock(source.lines, result.read_position_after_simbox)
        ELSE result.read_position_after_simbox = 0

\* The offset is taken by the step that reads the sixth line of a block, as
\* the position after that line, and no other step of the pass changes it.
C15_Capture ==
    pc' # "start" =>
        IF boxesDone' = boxesDone + 1
          THEN /\ ReadStep
               /\ config'.read_position_after_simbox = nread'
        ELSE config'.read_position_after_simbox
               = config.read_position_after_simbox

\* C15: the resume offset of a returned record is the position right after
\* the sixth bound line of the block, taken when that line is consumed.
C15_ResumeOffset ==
    []C15_ReturnedOffset /\ [][C15_Capture]_vars

C15_Witness ==
    /\ pc = "returned"
    /\ source = FileOf(<<SlashComment>> \o BoxBlock \o <<POSITION, RowLiquid>>)
    /\ nread = 10
    /\ result.read_position_after_simbox = 8

\* The file object exists from the open of a call until the call ends.
C16_Handle ==
    /\ pc = "start" => f = "none"
    /\ pc \in {"scan", "box"} => f = "open"
    /\ pc \in Terminal => f # "open"
    /\ (pc = "returned" \/ error = "RuntimeError") => f = "closed"

\* C16: the file is opened once, at the start of the pass, and is closed
\* when the call ends by end of input, by the early exit or by a raise.
C16_HandleReleased ==
    []C16_Handle /\ [][(f' = "open" /\ f # "open") => pc = "start"]_vars

C16_Witness ==
    /\ pc = "raised"
    /\ error = "RuntimeError"
    /\ nread >= 2
    /\ f = "closed"

\* The section after a step: changed only by a header read in the main
\* loop, which becomes the section, and by the end of a [simulation box]
\* block, which resets it.
C17_Step ==
    /\ current_section' # current_section =>
         \/ /\ LoopStep
            /\ IsHeader(Strip(line'))
            /\ current_section' = Strip(line')
         \/ /\ boxesDone' = boxesDone + 1
            /\ current_section' = NoSection
    /\ boxesDone' = boxesDone + 1 => current_section' = NoSection
    /\ (LoopStep /\ ~IsHeader(Strip(line')))
         => current_section' = current_section

\* C17: the section is None at the start and changes only when a header
\* line is read, except for the reset to None after a [simulation box]
\* block; data rows, blank lines and comments never change it.
C17_SectionChangesAtHeaders ==
    [](pc = "start" => current_section = NoSection) /\ [][C17_Step]_vars

C17_Witness ==
    /\ pc = "scan"
    /\ boxesDone = 1
    /\ current_section = MEMBRANES
    /\ Strip(line) = Membrane

\* A section without a handler: None, [velocity], [connection] and any
\* bracketed name the pass does not know.
Inert(section) ==
    section \notin {SIMULATION_BOX, PHYSICAL_PARAMETERS, POSITION, MEMBRANES,
                    PARTICLE_MEM_INDEX, END_MARKER}

\* C18: a line read while the section has no handler changes nothing of
\* the record and does not make the pass fail; when it is no header the
\* scan goes on in the same section.
C18_InertSections ==
    [][(LoopStep /\ Inert(current_section)) =>
          /\ config' = config
          /\ pc' \in {"scan", "box"}
          /\ ~IsHeader(Strip(line')) =>
                (pc' = "scan" /\ current_section' = current_section)]_vars

C18_Witness ==
    /\ pc = "scan"
    /\ current_section = UNKNOWN_SECTION
    /\ nscan = 3
    /\ Strip(line) = RowInf
    /\ config = SimConfig

\* What a row of type code p_type adds to <<liquid, elastic, boundary,
\* total>>.
Increment(p_type) ==
    <<IF p_type = 0 THEN 1 ELSE 0, IF p_type = 1 THEN 1 ELSE 0,
      IF p_type = 2 THEN 1 ELSE 0, 1>>

C19_Step ==
    /\ (LoopStep /\ current_section = POSITION /\ IsData(Strip(line'))
          /\ RecognizedRow(Strip(line')))
         => \A k \in 1..4 :
                Counters(config')[k] =
                    Counters(config)[k]
                      + Increment(TypeCode(Strip(line')).val)[k]
    /\ \A k \in 1..4 : Counters(config')[k] >= Counters(config)[k]

\* C19: a [position] row whose type code is 0, 1 or 2 adds one to the
\* counter of its type and one to num_total_p and leaves the other two
\* counters; no line makes a particle counter smaller.
C19_RecognizedRowCounts ==
    [][C19_Step]_vars

C19_Witness ==
    /\ pc = "scan"
    /\ current_section = POSITION
    /\ Strip(line) = RowBoundary
    /\ Counters(config) = <<1, 0, 1, 2>>

\* C20: the box draw_scene draws has the bounds of the record that
\* preload_config returned to the main program.
C20_SceneUsesPreloadedBounds ==
    drawn # << >> => drawn = BoxOf(result)

\* C21: during a pass the three typed counters add up to at most
\* num_total_p, and what is missing is the number of [position] rows read
\* so far with a type code other than 0, 1 and 2.
C21_TotalExceedsByUnknown ==
    /\ config.num_liquid_p + config.num_elastic_p + config.num_boundary_p
         <= config.num_total_p
    /\ config.num_total_p
         - (config.num_liquid_p + config.num_elastic_p + config.num_boundary_p)
         = unknownRows

C21_Witness ==
    /\ pc = "scan"
    /\ unknownRows = 1
    /\ config.num_total_p = 2
    /\ config.num_liquid_p = 1

\* A step of the loop or of a block consumes a line or ends the pass; at
\* end of input the main loop ends the pass by returning the record as it
\* is, and a block ends it by raising.
C22_Step ==
    /\ pc \in {"scan", "box"} => (ReadStep \/ pc' \in Terminal)
    /\ (pc = "scan" /\ ~ReadStep) =>
          (nread = Len(source.lines) /\ pc' = "returned" /\ result' = config)
    /\ (pc = "box" /\ ~ReadStep) =>
          (nread = Len(source.lines) /\ pc' = "raised")

\* C22: the pass over a file ends; every step before the end consumes a
\* line; end of input outside a [simulation box] block ends it with the
\* record returned, with or without an [end] or [particleMemIndex] header.
C22_Terminates ==
    <>(pc \in Terminal) /\ [][C22_Step]_vars

C22_Witness ==
    /\ pc = "returned"
    /\ ~stopSeen
    /\ source = FileOf(BoxBlock \o <<POSITION, RowLiquid>>)
    /\ nread = Len(source.lines)
    /\ result.num_liquid_p = 1

\* The file has a line that reads [simulation box].
HasBoxHeader(ls) == \E k \in 1..Len(ls) : Strip(ls[k]) = SIMULATION_BOX

NoBoxFile == source.kind = "file" /\ ~HasBoxHeader(source.lines)

ZeroBounds == <<Zero, Zero, Zero, Zero, Zero, Zero>>

\* The pass was ended by a [position] row whose type code raises an
\* exception that line 131 does not catch.
EndedByRow ==
    /\ pc = "raised"
    /\ current_section = POSITION
    /\ message = Unnumbered("error during preloading")
    /\ PositionMessage(Strip(line), line_num) = message

\* The pass over a file without a [simulation box] header: no block is
\* entered, the bounds and the offset keep their defaults, and the only
\* failure is that of a [position] row.
C23_Pass ==
    NoBoxFile =>
        /\ pc # "box"
        /\ boxesDone = 0
        /\ Bounds(config) = ZeroBounds
        /\ config.read_position_after_simbox = 0
        /\ pc = "returned" => (result = config /\ error = "")
        /\ pc = "raised" => EndedByRow

C23_End ==
    NoBoxFile =>
        \/ /\ pc = "returned"
           /\ Bounds(result) = ZeroBounds
           /\ result.read_position_after_simbox = 0
        \/ EndedByRow

Owned(section) ==
    CASE section = PHYSICAL_PARAMETERS -> {"physical_constants"}
      [] section = POSITION ->
           {"num_liquid_p", "num_elastic_p", "num_boundary_p", "num_total_p"}
      [] section = MEMBRANES -> {"num_membranes"}

\* The fields no handler of a data line writes.
NeverOwned ==
    {"xmin", "xmax", "ymin", "ymax", "zmin", "zmax",
     "read_position_after_simbox", "num_connections",
     "particle_mem_indices_count"}

\* The records agree on every field outside the set.
SameBut(new, old, fields) ==
    /\ DOMAIN new = DOMAIN old
    /\ \A k \in DOMAIN old \ fields : new[k] = old[k]

C24_Step ==
    (LoopStep /\ IsData(Strip(line'))) =>
        /\ current_section \in {PHYSICAL_PARAMETERS, POSITION, MEMBRANES}
              => SameBut(config', config, Owned(current_section))
        /\ \A k \in NeverOwned : config'[k] = config[k]

\* C24: a data line of the main loop under [physical parameters] changes
\* at most physical_constants, under [position] at most the four particle
\* counters, under [membranes] at most num_membranes; no data line changes
\* a bound, the resume offset, num_connections or
\* particle_mem_indices_count.
C24_DataLineFrame ==
    [][C24_Step]_vars

C24_Witness ==
    /\ pc = "scan"
    /\ current_section = MEMBRANES
    /\ line = Membrane
    /\ config.num_membranes = 1
    /\ config.num_connections = 0

(***************************************************************************)
(* Properties of SimpleRenderer.                                           *)
(***************************************************************************)
C25_Range ==
    /\ min_radius <= radius
    /\ radius <= max_radius
    /\ Tenths(0, 0) <= angle
    /\ angle < Tenths(360, 0)

C25_Paused == paused => angle' = angle

\* C25: whatever mouse wheel events, timer ticks and keys a SimpleRenderer
\* receives, its radius stays within min_radius..max_radius (1.0 to 200.0)
\* and its angle within [0, 360), and no event changes the angle while
\* paused is true.
C25_CameraStaysInRange ==
    []C25_Range /\ [][C25_Paused]_vars

\* Paused one tick before the angle wraps, zoomed in as far as it goes.
C25_Witness ==
    /\ radius = min_radius
    /\ paused
    /\ angle = Tenths(359, 5)

====
